---- MODULE Spec2Model ----
(***************************************************************************)
(* A model of the RAG knowledge base of my-rag-app: the chunker, the four  *)
(* raw stores (knowledge file, url_content.txt, qna.txt, documents/), the  *)
(* Chroma collection derived from them, query_rag, and one save_document   *)
(* run statement by statement beside a query.                              *)
(*                                                                         *)
(* Text is a sequence of tokens.  A token is a word, a single blank SP or  *)
(* a single line break NL; the marker "--- URL:" of url_content.txt is the *)
(* three tokens "---", SP, "URL:".  Words never contain white space and    *)
(* are always separated by white space, so str.split(), str.strip(),       *)
(* str.find("\n") and str.split(sep) act on tokens as they act on          *)
(* characters.  A source label is a text too (a URL read back from         *)
(* url_content.txt is several tokens long).                                *)
(*                                                                         *)
(* The store operations run with the API keys configured (get_collection   *)
(* succeeds); the failures modelled are the extraction of a page or file,  *)
(* the embedding inside coll.add, and coll.delete / delete_collection,     *)
(* which the code swallows.  Writes of the raw store files succeed.  Of    *)
(* the chunk metadata only source and type are kept.  Distances and the    *)
(* similarity threshold are in tenths.                                     *)
(***************************************************************************)
EXTENDS Integers, Sequences, FiniteSets, Bags, TLC

VARIABLES
    knowledge,      \* content of knowledge.txt (KNOWLEDGE_PATH)
    url_content,    \* content of url_content.txt (URL_CONTENT_PATH)
    qna,            \* content of qna.txt (QNA_PATH)
    documents,      \* documents/<id>.txt: doc id -> content, for the files that exist
    index,          \* the Chroma collection: a bag of [text, source, type]
    out,            \* the operation that completed last, its arguments and outcome
    chunkCall,      \* one call of chunk_text: its arguments and its result
    urlCall,        \* one write and read back of url_content.txt
    query,          \* one call of query_rag: its inputs and its result
    qnaCall,        \* one write and read back of qna.txt
    race,           \* one save_document run step by step, and what a concurrent query saw
    procs,          \* the calls that run side by side, statement by statement
    ops             \* the number of operations completed so far

varsStore == <<knowledge, url_content, qna, documents, index, out>>
vars == <<knowledge, url_content, qna, documents, index, out, chunkCall, urlCall, query, qnaCall,
          race, procs, ops>>

-----------------------------------------------------------------------------
(* Text primitives (Python str methods, on tokens).                        *)

SP == " "
NL == "\n"
WS == {SP, NL}

Max(a, b) == IF a >= b THEN a ELSE b
Min(a, b) == IF a <= b THEN a ELSE b

RECURSIVE lstrip(_)
lstrip(s) == IF s # <<>> /\ Head(s) \in WS THEN lstrip(Tail(s)) ELSE s

RECURSIVE rstrip(_)
rstrip(s) == IF s # <<>> /\ s[Len(s)] \in WS THEN rstrip(SubSeq(s, 1, Len(s) - 1)) ELSE s

\* str.strip()
strip(s) == rstrip(lstrip(s))

\* str.split(): the words of s, white space dropped
RECURSIVE split(_)
split(s) ==
    IF s = <<>> THEN <<>>
    ELSE IF Head(s) \in WS THEN split(Tail(s))
    ELSE <<Head(s)>> \o split(Tail(s))

\* sep.join(parts), parts a sequence of texts
RECURSIVE join(_, _)
join(sep, parts) ==
    IF parts = <<>> THEN <<>>
    ELSE IF Len(parts) = 1 THEN parts[1]
    ELSE parts[1] \o sep \o join(sep, Tail(parts))

\* " ".join(words), words a sequence of tokens
RECURSIVE joinWords(_)
joinWords(words) ==
    IF words = <<>> THEN <<>>
    ELSE IF Len(words) = 1 THEN <<words[1]>>
    ELSE <<words[1], SP>> \o joinWords(Tail(words))

\* str.find(tok): the least position of tok in s, 0 when absent (Python: -1)
find(s, tok) ==
    IF \E i \in 1..Len(s) : s[i] = tok
    THEN CHOOSE i \in 1..Len(s) : s[i] = tok /\ \A j \in 1..(i - 1) : s[j] # tok
    ELSE 0

startswith(s, p) == Len(p) <= Len(s) /\ SubSeq(s, 1, Len(p)) = p

\* str.split(sep): the pieces of s between the occurrences of sep, left to right
RECURSIVE splitAcc(_, _, _)
splitAcc(s, sep, cur) ==
    IF s = <<>> THEN <<cur>>
    ELSE IF startswith(s, sep)
         THEN <<cur>> \o splitAcc(SubSeq(s, Len(sep) + 1, Len(s)), sep, <<>>)
         ELSE splitAcc(Tail(s), sep, Append(cur, Head(s)))

splitOn(s, sep) == splitAcc(s, sep, <<>>)

-----------------------------------------------------------------------------
(* Configuration (config.py).  CHUNK_SIZE and CHUNK_OVERLAP are read from  *)
(* the environment; the model runs the deployment CHUNK_SIZE=2,            *)
(* CHUNK_OVERLAP=1 so that the texts of the model span several chunks.     *)
(* Distances are in tenths: SIMILARITY_THRESHOLD 4 is 0.4.                 *)

CHUNK_SIZE == 2
CHUNK_OVERLAP == 1
TOP_K == 5
SIMILARITY_THRESHOLD == 4

-----------------------------------------------------------------------------
(* rag_core.chunk_text                                                     *)

\* the loop of chunk_text from offset i (0-based, as in the source)
RECURSIVE chunkLoop(_, _, _, _)
chunkLoop(words, i, chunk_size, step) ==
    IF i >= Len(words) THEN <<>>
    ELSE LET chunk == joinWords(SubSeq(words, i + 1, Min(i + chunk_size, Len(words))))
             here  == IF strip(chunk) # <<>> THEN <<chunk>> ELSE <<>>
         IN  IF i + chunk_size >= Len(words) THEN here
             ELSE here \o chunkLoop(words, i + step, chunk_size, step)

\* a slip in the stop test: > for >=
RECURSIVE chunkLoopLate(_, _, _, _)
chunkLoopLate(words, i, chunk_size, step) ==
    IF i >= Len(words) THEN <<>>
    ELSE LET chunk == joinWords(SubSeq(words, i + 1, Min(i + chunk_size, Len(words))))
             here  == IF strip(chunk) # <<>> THEN <<chunk>> ELSE <<>>
         IN  IF i + chunk_size > Len(words) THEN here
             ELSE here \o chunkLoopLate(words, i + step, chunk_size, step)

chunk_text_late(text, chunk_size, overlap) ==
    LET words == split(strip(text))
    IN  IF words = <<>> THEN <<>>
        ELSE chunkLoopLate(words, 0, chunk_size, Max(1, chunk_size - overlap))

\* chunk_text made to ignore the overlap: the windows advance by chunk_size
chunk_text_stride(text, chunk_size, overlap) ==
    LET words == split(strip(text))
    IN  IF words = <<>> THEN <<>>
        ELSE chunkLoop(words, 0, chunk_size, chunk_size)

chunk_text(text, chunk_size, overlap) ==
    LET words == split(strip(text))
    IN  IF words = <<>> THEN <<>>
        ELSE chunkLoop(words, 0, chunk_size, Max(1, chunk_size - overlap))

-----------------------------------------------------------------------------
(* Bounds of the model.                                                    *)

MaxOps == 3           \* the operations completed in one run
MaxQnaAt == 2         \* delete_qna_at_index is called with -1..MaxQnaAt

\* The inputs the operations are called with.
Urls == {<<"u1">>}
DocOrder == << <<"d1">>, <<"qna">> >>        \* the document ids, sorted by file name
DocIds == {DocOrder[i] : i \in 1..Len(DocOrder)}
PdfNames == {<<"p.pdf">>}
DocxNames == {<<"r.docx">>}
PageTexts == {<<>>, <<"a">>, <<"a", SP, "b", SP, "c">>}      \* what _clean_text can return
FileTexts == {<<"a">>}                                        \* the text of an uploaded file
Contents == PageTexts                                         \* what a caller can send
KnowledgeTexts == {<<SP>>, <<"a">>}                           \* what PUT /knowledge is sent
Questions == {<<>>, <<"x">>}
Answers == {<<"y">>}

QNA_LABEL == <<"qna">>
KNOWLEDGE_LABEL == <<"knowledge.txt">>
NoArg == <<>>

-----------------------------------------------------------------------------
(* The Chroma collection (rag_core.py).  Ids are fresh uuid4 values, so    *)
(* the collection is a bag of entries: equal entries are kept apart.       *)

RECURSIVE bagOf(_)
bagOf(seq) == IF seq = <<>> THEN EmptyBag ELSE SetToBag({Head(seq)}) (+) bagOf(Tail(seq))

\* the entries of idx whose metadata 'source' is label
entriesOf(idx, label) == [e \in {x \in DOMAIN idx : x.source = label} |-> idx[e]]

\* coll.delete(where={"source": {"$eq": label}})
withoutSource(idx, label) == [e \in {x \in DOMAIN idx : x.source # label} |-> idx[e]]

\* delete_chunks_by_source: an exception of coll.delete is swallowed (deleteOk = FALSE)
delete_chunks_by_source(idx, label, deleteOk) ==
    IF deleteOk THEN withoutSource(idx, label) ELSE idx

\* clear_collection: an exception of client.delete_collection is swallowed
clear_collection(idx, clearOk) == IF clearOk THEN EmptyBag ELSE idx

\* the entries ingest_text builds for text: one per chunk, tagged with label and type
entriesFor(text, label, type) ==
    LET chunks == chunk_text(text, CHUNK_SIZE, CHUNK_OVERLAP)
    IN  [i \in 1..Len(chunks) |-> [text |-> chunks[i], source |-> label, type |-> type]]

\* add_chunks_to_collection: coll.add embeds every chunk, then stores them all
add_chunks_to_collection(idx, entries) == idx (+) bagOf(entries)

\* ingest_text made to replace: the entries of label are deleted before text is looked at
ingest_text_replacing(idx, text, label, type, embedOk) ==
    LET idx1 == withoutSource(idx, label)
    IN  IF strip(text) = <<>> THEN [index |-> idx1, ok |-> TRUE, n |-> 0]
        ELSE LET entries == entriesFor(text, label, type)
             IN  IF entries = <<>> THEN [index |-> idx1, ok |-> TRUE, n |-> 0]
                 ELSE IF embedOk
                      THEN [index |-> add_chunks_to_collection(idx1, entries), ok |-> TRUE,
                            n |-> Len(entries)]
                      ELSE [index |-> idx1, ok |-> FALSE, n |-> 0]

\* ingest_text: [index, ok, n]; embedOk = FALSE is a failure of the embedding in coll.add,
\* which is reached only when there is a chunk to add
ingest_text(idx, text, label, type, embedOk) ==
    IF strip(text) = <<>> THEN [index |-> idx, ok |-> TRUE, n |-> 0]
    ELSE LET entries == entriesFor(text, label, type)
         IN  IF entries = <<>> THEN [index |-> idx, ok |-> TRUE, n |-> 0]
             ELSE IF embedOk
                  THEN [index |-> add_chunks_to_collection(idx, entries), ok |-> TRUE,
                        n |-> Len(entries)]
                  ELSE [index |-> idx, ok |-> FALSE, n |-> 0]

-----------------------------------------------------------------------------
(* url_content.txt (ingest.py)                                             *)

URL_MARKER == <<"---", SP, "URL:">>

\* _append_url_content_to_file: "\n\n--- URL: {} ---\n\n" + text + "\n"
append_url_content(file, url, text) ==
    file \o <<NL, NL>> \o URL_MARKER \o <<SP>> \o url \o <<SP, "---", NL, NL>> \o text \o <<NL>>

\* one block of text.split("--- URL:"): the entry it yields, if any
parse_url_block(block0) ==
    LET block == strip(block0)
        first_newline == find(block, NL)
        url == IF first_newline > 0 THEN strip(SubSeq(block, 1, first_newline - 1)) ELSE block
        content == IF first_newline > 0 THEN strip(SubSeq(block, first_newline, Len(block)))
                   ELSE <<>>
    IN  IF block = <<>> \/ url = <<>> THEN <<>>
        ELSE << [url |-> url, content |-> content] >>

RECURSIVE parse_url_blocks(_)
parse_url_blocks(blocks) ==
    IF blocks = <<>> THEN <<>>
    ELSE parse_url_block(Head(blocks)) \o parse_url_blocks(Tail(blocks))

\* parse_url_content_file: the list of {url, content}
parse_url_content_file(file) == parse_url_blocks(splitOn(file, URL_MARKER))

\* rewrite_url_content_file: "--- URL: {} ---\n\n{}" per entry, joined by "\n\n"
rewrite_url_content_file(entries) ==
    join(<<NL, NL>>,
         [i \in 1..Len(entries) |->
            URL_MARKER \o <<SP>> \o entries[i].url \o <<SP, "---", NL, NL>> \o entries[i].content])

\* the first position of entries whose url is url, 0 when there is none
urlPosition(entries, url) ==
    IF \E i \in 1..Len(entries) : entries[i].url = url
    THEN CHOOSE i \in 1..Len(entries) :
            entries[i].url = url /\ \A j \in 1..(i - 1) : entries[j].url # url
    ELSE 0

\* the entries update_url_content writes: the first entry of url replaced, else one appended
updated_url_entries(entries, url, new_content) ==
    LET k == urlPosition(entries, url)
    IN  IF k > 0 THEN [entries EXCEPT ![k].content = new_content]
        ELSE Append(entries, [url |-> url, content |-> new_content])

-----------------------------------------------------------------------------
(* qna.txt (ingest.py)                                                     *)

\* "Q: {}\nA: {}".format(question, answer)
qna_text(question, answer) == <<"Q:", SP>> \o question \o <<NL, "A:", SP>> \o answer

\* one block of text.split("\n\n"), stripped and not empty
parse_qna_block(block) ==
    IF Head(block) \in {"Q:", "q:"}
    THEN LET idx == find(block, NL)
         IN  IF idx > 0
             THEN LET rest == strip(SubSeq(block, idx, Len(block)))
                  IN  [question |-> strip(SubSeq(block, 2, idx - 1)),
                       answer |-> IF rest # <<>> /\ Head(rest) \in {"A:", "a:"}
                                  THEN strip(Tail(rest)) ELSE <<>>]
             ELSE [question |-> strip(Tail(block)), answer |-> <<>>]
    ELSE [question |-> <<>>, answer |-> <<>>]

RECURSIVE parse_qna_blocks(_)
parse_qna_blocks(blocks) ==
    IF blocks = <<>> THEN <<>>
    ELSE LET block == strip(Head(blocks))
         IN  (IF block = <<>> THEN <<>> ELSE <<parse_qna_block(block)>>)
             \o parse_qna_blocks(Tail(blocks))

\* parse_qna_file: the list of {question, answer}
parse_qna_file(file) == parse_qna_blocks(splitOn(file, <<NL, NL>>))

\* _write_qna_file: the stripped pairs joined by "\n\n", and "\n\n" after the last
write_qna_file(entries) ==
    LET lines == [i \in 1..Len(entries) |->
                    qna_text(strip(entries[i].question), strip(entries[i].answer))]
    IN  join(<<NL, NL>>, lines) \o (IF lines # <<>> THEN <<NL, NL>> ELSE <<>>)

\* entries.pop(at), at 0-based
pop(entries, at) ==
    SubSeq(entries, 1, at) \o SubSeq(entries, at + 2, Len(entries))

\* the text delete_qna_at_index ingests again for the entries left
qna_reingest_text(entries) ==
    join(<<NL, NL>>, [i \in 1..Len(entries) |-> qna_text(entries[i].question, entries[i].answer)])

-----------------------------------------------------------------------------
(* documents/ and the full rebuild (ingest.py)                             *)

NoDocuments == [d \in {} |-> <<>>]

\* f.write_text(content) on documents/<doc_id>.txt
write_document(docs, doc_id, content) ==
    [d \in DOMAIN docs \cup {doc_id} |-> IF d = doc_id THEN content ELSE docs[d]]

\* f.unlink() if the file exists
unlink_document(docs, doc_id) == [d \in DOMAIN docs \ {doc_id} |-> docs[d]]

\* list_documents: the ids of the files that exist, sorted by name
list_documents(docs) == SelectSeq(DocOrder, LAMBDA d : d \in DOMAIN docs)

\* get_document_content: "" when the file does not exist
get_document_content(docs, doc_id) == IF doc_id \in DOMAIN docs THEN docs[doc_id] ELSE <<>>

\* the ingest_text calls of reingest_all_sources that reach the embedding, in order:
\* knowledge.txt, every URL entry with content, qna.txt as one text, every document
reingest_jobs(k, urlFile, qnaFile, docs) ==
    LET kj == IF k.exists
              THEN << [text |-> k.text, source |-> KNOWLEDGE_LABEL, type |-> "txt"] >>
              ELSE <<>>
        es == parse_url_content_file(urlFile)
        uj == [i \in 1..Len(es) |->
                 [text |-> es[i].content, source |-> es[i].url, type |-> "url"]]
        qj == << [text |-> qnaFile, source |-> QNA_LABEL, type |-> "qna"] >>
        ds == list_documents(docs)
        dj == [i \in 1..Len(ds) |->
                 [text |-> get_document_content(docs, ds[i]), source |-> ds[i], type |-> "doc"]]
    IN  SelectSeq(kj \o uj \o qj \o dj, LAMBDA j : strip(j.text) # <<>>)

\* the calls made one after the other; failAt is the call whose embedding fails (0: none)
RECURSIVE ingest_jobs(_, _, _)
ingest_jobs(idx, jobs, failAt) ==
    IF jobs = <<>> THEN [index |-> idx, ok |-> TRUE]
    ELSE IF failAt = 1 THEN [index |-> idx, ok |-> FALSE]
    ELSE ingest_jobs(ingest_text(idx, Head(jobs).text, Head(jobs).source, Head(jobs).type,
                                 TRUE).index,
                     Tail(jobs), IF failAt = 0 THEN 0 ELSE failAt - 1)

\* reingest_all_sources: [index, ok]
reingest_all_sources(idx, k, urlFile, qnaFile, docs, clearOk, failAt) ==
    ingest_jobs(clear_collection(idx, clearOk), reingest_jobs(k, urlFile, qnaFile, docs), failAt)

-----------------------------------------------------------------------------
(* The operations.  Each is a whole call; its last parameters are the      *)
(* outcomes of the services it uses: extractOk (the page or file could be  *)
(* read), deleteOk / clearOk (the delete call of Chroma did not raise),    *)
(* embedOk (the embedding in coll.add did not raise).                      *)

\* one more operation, run to its end; the calls in flight elsewhere are left alone
Counted ==
    /\ ops < MaxOps
    /\ ops' = ops + 1
    /\ UNCHANGED <<chunkCall, urlCall, query, qnaCall, race, procs>>

Returned(op, id, text, status) ==
    out' = [op |-> op, id |-> id, text |-> text, status |-> status]

\* the outcome of an operation called with a position
ReturnedAt(op, id, text, status, at) ==
    out' = [op |-> op, id |-> id, text |-> text, status |-> status, at |-> at]

\* the outcome of an ingest: r is what ingest_text returned, r.n the number of chunks added
ReturnedCount(op, id, text, r) ==
    out' = [op |-> op, id |-> id, text |-> text,
            status |-> IF r.ok THEN "ok" ELSE "embedding_error", n |-> r.n]

StatusOf(ok) == IF ok THEN "ok" ELSE "embedding_error"

\* ingest_url made to write the marker line of the url before the page is fetched
IngestUrlMarkerFirst(url, text, extractOk, embedOk) ==
    /\ Counted
    /\ IF ~extractOk
       THEN /\ Returned("ingest_url", url, NoArg, "extraction_error")
            /\ url_content' = append_url_content(url_content, url, <<>>)
            /\ UNCHANGED <<knowledge, qna, documents, index>>
       ELSE LET file == append_url_content(url_content, url, text)
                r == ingest_text(index, text, url, "url", embedOk)
            IN  /\ url_content' = file
                /\ index' = r.index
                /\ ReturnedCount("ingest_url", url, text, r)
                /\ UNCHANGED <<knowledge, qna, documents>>

\* ingest_url: extract, append to url_content.txt, ingest_text
IngestUrl(url, text, extractOk, embedOk) ==
    /\ Counted
    /\ IF ~extractOk
       THEN /\ Returned("ingest_url", url, NoArg, "extraction_error")
            /\ UNCHANGED <<knowledge, url_content, qna, documents, index>>
       ELSE LET file == append_url_content(url_content, url, text)
                r == ingest_text(index, text, url, "url", embedOk)
            IN  /\ url_content' = file
                /\ index' = r.index
                /\ ReturnedCount("ingest_url", url, text, r)
                /\ UNCHANGED <<knowledge, qna, documents>>

\* ingest_pdf: extract, ingest_text under the file name; nothing is persisted
IngestPdf(filename, text, extractOk, embedOk) ==
    /\ Counted
    /\ IF ~extractOk
       THEN /\ Returned("ingest_pdf", filename, NoArg, "extraction_error")
            /\ UNCHANGED <<knowledge, url_content, qna, documents, index>>
       ELSE LET r == ingest_text(index, text, filename, "pdf", embedOk)
            IN  /\ index' = r.index
                /\ ReturnedCount("ingest_pdf", filename, text, r)
                /\ UNCHANGED <<knowledge, url_content, qna, documents>>

\* ingest_docx
IngestDocx(filename, text, extractOk, embedOk) ==
    /\ Counted
    /\ IF ~extractOk
       THEN /\ Returned("ingest_docx", filename, NoArg, "extraction_error")
            /\ UNCHANGED <<knowledge, url_content, qna, documents, index>>
       ELSE LET r == ingest_text(index, text, filename, "docx", embedOk)
            IN  /\ index' = r.index
                /\ ReturnedCount("ingest_docx", filename, text, r)
                /\ UNCHANGED <<knowledge, url_content, qna, documents>>

\* ingest_knowledge_file
IngestKnowledgeFile(embedOk) ==
    /\ Counted
    /\ IF ~knowledge.exists
       THEN /\ Returned("ingest_knowledge_file", KNOWLEDGE_LABEL, NoArg, "file_not_found")
            /\ UNCHANGED <<knowledge, url_content, qna, documents, index>>
       ELSE LET r == ingest_text(index, knowledge.text, KNOWLEDGE_LABEL, "txt", embedOk)
            IN  /\ index' = r.index
                /\ ReturnedCount("ingest_knowledge_file", KNOWLEDGE_LABEL, knowledge.text, r)
                /\ UNCHANGED <<knowledge, url_content, qna, documents>>

\* remove_url_from_knowledge_base
RemoveUrl(url, deleteOk) ==
    /\ Counted
    /\ LET entries == SelectSeq(parse_url_content_file(url_content), LAMBDA e : e.url # url)
           file == rewrite_url_content_file(entries)
       IN  /\ index' = delete_chunks_by_source(index, url, deleteOk)
           /\ url_content' = file
           /\ Returned("remove_url_from_knowledge_base", url, NoArg, "ok")
           /\ UNCHANGED <<knowledge, qna, documents>>

\* update_url_content
UpdateUrlContent(url, new_content, deleteOk, embedOk) ==
    /\ Counted
    /\ LET idx1 == delete_chunks_by_source(index, url, deleteOk)
           file == rewrite_url_content_file(
                       updated_url_entries(parse_url_content_file(url_content), url, new_content))
           r == IF strip(new_content) # <<>>
                THEN ingest_text(idx1, new_content, url, "url", embedOk)
                ELSE [index |-> idx1, ok |-> TRUE, n |-> 0]
       IN  /\ url_content' = file
           /\ index' = r.index
           /\ Returned("update_url_content", url, new_content, StatusOf(r.ok))
           /\ UNCHANGED <<knowledge, qna, documents>>

\* save_document: write the file, delete the chunks of doc_id, ingest_text
SaveDocument(doc_id, content, deleteOk, embedOk) ==
    /\ Counted
    /\ LET idx1 == delete_chunks_by_source(index, doc_id, deleteOk)
           r == IF strip(content) # <<>>
                THEN ingest_text(idx1, content, doc_id, "doc", embedOk)
                ELSE [index |-> idx1, ok |-> TRUE, n |-> 0]
       IN  /\ documents' = write_document(documents, doc_id, content)
           /\ index' = r.index
           /\ Returned("save_document", doc_id, content, StatusOf(r.ok))
           /\ UNCHANGED <<knowledge, url_content, qna>>

\* delete_document
DeleteDocument(doc_id, deleteOk) ==
    /\ Counted
    /\ index' = delete_chunks_by_source(index, doc_id, deleteOk)
    /\ documents' = unlink_document(documents, doc_id)
    /\ Returned("delete_document", doc_id, NoArg, "ok")
    /\ UNCHANGED <<knowledge, url_content, qna>>

\* GET /documents/{doc_id} (api.get_document): the content, in a 200 response
GetDocument(doc_id) ==
    /\ Counted
    /\ Returned("get_document", doc_id, get_document_content(documents, doc_id), "ok")
    /\ UNCHANGED <<knowledge, url_content, qna, documents, index>>

\* append_qna
AppendQna(question, answer, embedOk) ==
    /\ Counted
    /\ LET text == qna_text(strip(question), strip(answer))
           file == qna \o text \o <<NL, NL>>
           r == ingest_text(index, text, QNA_LABEL, "qna", embedOk)
       IN  /\ qna' = file
           /\ index' = r.index
           /\ Returned("append_qna", QNA_LABEL, text, StatusOf(r.ok))
           /\ UNCHANGED <<knowledge, url_content, documents>>

\* delete_all_qna
DeleteAllQna(deleteOk) ==
    /\ Counted
    /\ index' = delete_chunks_by_source(index, QNA_LABEL, deleteOk)
    /\ qna' = <<>>
    /\ Returned("delete_all_qna", QNA_LABEL, NoArg, "ok")
    /\ UNCHANGED <<knowledge, url_content, documents>>

\* delete_qna_at_index with the chunks of 'qna' deleted before the range of at is tested
DeleteQnaAtIndexLateCheck(at, deleteOk, embedOk) ==
    /\ Counted
    /\ LET entries == parse_qna_file(qna)
           idx1 == delete_chunks_by_source(index, QNA_LABEL, deleteOk)
       IN  IF at < 0 \/ at >= Len(entries)
           THEN /\ ReturnedAt("delete_qna_at_index", QNA_LABEL, NoArg, "index_error", at)
                /\ index' = idx1
                /\ UNCHANGED <<knowledge, url_content, qna, documents>>
           ELSE LET left == pop(entries, at)
                    text == qna_reingest_text(left)
                    r == IF left # <<>>
                         THEN ingest_text(idx1, text, QNA_LABEL, "qna", embedOk)
                         ELSE [index |-> idx1, ok |-> TRUE, n |-> 0]
                IN  /\ qna' = write_qna_file(left)
                    /\ index' = r.index
                    /\ ReturnedAt("delete_qna_at_index", QNA_LABEL, text, StatusOf(r.ok), at)
                    /\ UNCHANGED <<knowledge, url_content, documents>>

\* delete_qna_at_index(at), at 0-based
DeleteQnaAtIndex(at, deleteOk, embedOk) ==
    /\ Counted
    /\ LET entries == parse_qna_file(qna)
       IN  IF at < 0 \/ at >= Len(entries)
           THEN /\ ReturnedAt("delete_qna_at_index", QNA_LABEL, NoArg, "index_error", at)
                /\ UNCHANGED <<knowledge, url_content, qna, documents, index>>
           ELSE LET left == pop(entries, at)
                    idx1 == delete_chunks_by_source(index, QNA_LABEL, deleteOk)
                    text == qna_reingest_text(left)
                    r == IF left # <<>>
                         THEN ingest_text(idx1, text, QNA_LABEL, "qna", embedOk)
                         ELSE [index |-> idx1, ok |-> TRUE, n |-> 0]
                IN  /\ qna' = write_qna_file(left)
                    /\ index' = r.index
                    /\ ReturnedAt("delete_qna_at_index", QNA_LABEL, text, StatusOf(r.ok), at)
                    /\ UNCHANGED <<knowledge, url_content, documents>>

\* reingest_all_sources; any one of its embedding calls may fail
ReingestAllSources(clearOk) ==
    /\ Counted
    /\ \E failAt \in 0..Len(reingest_jobs(knowledge, url_content, qna, documents)) :
          LET r == reingest_all_sources(index, knowledge, url_content, qna, documents,
                                        clearOk, failAt)
          IN  /\ index' = r.index
              /\ Returned("reingest_all_sources", NoArg, NoArg, StatusOf(r.ok))
              /\ UNCHANGED <<knowledge, url_content, qna, documents>>

\* PUT /knowledge (api.save_knowledge): write knowledge.txt, then reingest_all_sources
SaveKnowledge(content, clearOk) ==
    /\ Counted
    /\ LET k == [exists |-> TRUE, text |-> content]
       IN  \E failAt \in 0..Len(reingest_jobs(k, url_content, qna, documents)) :
              LET r == reingest_all_sources(index, k, url_content, qna, documents,
                                            clearOk, failAt)
              IN  /\ knowledge' = k
                  /\ index' = r.index
                  /\ Returned("save_knowledge", KNOWLEDGE_LABEL, content, StatusOf(r.ok))
                  /\ UNCHANGED <<url_content, qna, documents>>

IdleChunkCall == [pc |-> "idle", text |-> <<>>, chunk_size |-> CHUNK_SIZE,
                  overlap |-> CHUNK_OVERLAP, result |-> <<>>]
IdleUrlCall == [pc |-> "idle", entries |-> <<>>, file |-> <<>>, parsed |-> <<>>]
IdleQuery == [pc |-> "idle", question |-> <<>>, keysOk |-> TRUE,
              retrieval |-> [ok |-> TRUE, results |-> <<>>],
              completion |-> [ok |-> TRUE, text |-> ""],
              result |-> [status |-> "ok", answer |-> "", sources |-> <<>>,
                          retrieved |-> FALSE, completed |-> FALSE]]

IdleQnaCall == [pc |-> "idle", entries |-> <<>>, file |-> <<>>, parsed |-> <<>>]
IdleProcs == [p \in {} |-> [pc |-> "idle"]]
IdleRace == [pc |-> "idle", doc_id |-> NoArg, old |-> NoArg, content |-> NoArg,
             queried |-> FALSE, seen |-> EmptyBag]

InitStore ==
    /\ knowledge = [exists |-> FALSE, text |-> <<>>]
    /\ url_content = <<>>
    /\ qna = <<>>
    /\ documents = NoDocuments
    /\ index = EmptyBag
    /\ out = [op |-> "init", id |-> NoArg, text |-> NoArg, status |-> "ok"]

Init ==
    /\ InitStore
    /\ chunkCall = IdleChunkCall
    /\ urlCall = IdleUrlCall
    /\ query = IdleQuery
    /\ qnaCall = IdleQnaCall
    /\ race = IdleRace
    /\ procs = IdleProcs
    /\ ops = 0

\* the outcomes of the embedding that are told apart: both when there is text to embed,
\* success alone when ingest_text returns before it
Embeds(text) == IF strip(text) # <<>> THEN BOOLEAN ELSE {TRUE}

Next ==
    \/ \E url \in Urls, extractOk \in BOOLEAN :
          \E text \in (IF extractOk THEN PageTexts ELSE {NoArg}) :
             \E embedOk \in Embeds(text) : IngestUrl(url, text, extractOk, embedOk)
    \/ \E filename \in PdfNames, extractOk \in BOOLEAN :
          \E text \in (IF extractOk THEN FileTexts ELSE {NoArg}) :
             \E embedOk \in Embeds(text) : IngestPdf(filename, text, extractOk, embedOk)
    \/ \E filename \in DocxNames, extractOk \in BOOLEAN :
          \E text \in (IF extractOk THEN FileTexts ELSE {NoArg}) :
             \E embedOk \in Embeds(text) : IngestDocx(filename, text, extractOk, embedOk)
    \/ \E embedOk \in BOOLEAN : IngestKnowledgeFile(embedOk)
    \/ \E url \in Urls, deleteOk \in BOOLEAN : RemoveUrl(url, deleteOk)
    \/ \E url \in Urls, content \in Contents, deleteOk \in BOOLEAN :
          \E embedOk \in Embeds(content) : UpdateUrlContent(url, content, deleteOk, embedOk)
    \/ \E doc_id \in DocIds, content \in Contents, deleteOk \in BOOLEAN :
          \E embedOk \in Embeds(content) : SaveDocument(doc_id, content, deleteOk, embedOk)
    \/ \E doc_id \in DocIds, deleteOk \in BOOLEAN : DeleteDocument(doc_id, deleteOk)
    \/ \E doc_id \in DocIds : GetDocument(doc_id)
    \/ \E question \in Questions, answer \in Answers, embedOk \in BOOLEAN :
          AppendQna(question, answer, embedOk)
    \/ \E deleteOk \in BOOLEAN : DeleteAllQna(deleteOk)
    \/ \E at \in -1..MaxQnaAt, deleteOk, embedOk \in BOOLEAN :
          DeleteQnaAtIndex(at, deleteOk, embedOk)
    \/ \E clearOk \in BOOLEAN : ReingestAllSources(clearOk)
    \/ \E content \in KnowledgeTexts, clearOk \in BOOLEAN : SaveKnowledge(content, clearOk)

Spec == Init /\ [][Next]_vars

-----------------------------------------------------------------------------
(* chunk_text on its own: the arguments are drawn in the initial state.    *)

MaxWords == 6         \* the texts chunked have 0..MaxWords words
MaxChunkSize == 4     \* chunk_size in 1..MaxChunkSize, overlap in 0..MaxChunkSize

WordPool == <<"a", "b", "c", "d", "e">>
wordAt(i) == WordPool[((i - 1) % Len(WordPool)) + 1]

\* a text of w words; pad is white space put around it
textOfWords(w, pad) == pad \o joinWords([i \in 1..w |-> wordAt(i)]) \o pad

InitChunk ==
    /\ InitStore
    /\ urlCall = IdleUrlCall
    /\ query = IdleQuery
    /\ qnaCall = IdleQnaCall
    /\ race = IdleRace
    /\ procs = IdleProcs
    /\ ops = 0
    /\ \E w \in 0..MaxWords, pad \in {<<>>, <<SP>>, <<NL, SP>>},
          c \in 1..MaxChunkSize, o \in 0..MaxChunkSize :
          chunkCall = [pc |-> "call", text |-> textOfWords(w, pad), chunk_size |-> c,
                       overlap |-> o, result |-> <<>>]

ChunkText ==
    /\ chunkCall.pc = "call"
    /\ chunkCall' = [chunkCall EXCEPT
                        !.pc = "done",
                        !.result = chunk_text(chunkCall.text, chunkCall.chunk_size,
                                              chunkCall.overlap)]
    /\ UNCHANGED <<varsStore, urlCall, query, qnaCall, race, procs, ops>>

NextChunk == ChunkText

SpecChunk == InitChunk /\ [][NextChunk]_vars

-----------------------------------------------------------------------------
(* url_content.txt written and read back: the entries are drawn in the     *)
(* initial state.                                                          *)

MaxEntries == 2       \* the lists written have 0..MaxEntries entries

RoundTripUrls == {<<"u1">>, <<"u2">>}
RoundTripContents == {<<>>, <<"a">>, <<"a", SP, "b">>}
RoundTripEntries == {[url |-> u, content |-> c] : u \in RoundTripUrls, c \in RoundTripContents}
RoundTripLists == UNION {[1..n -> RoundTripEntries] : n \in 0..MaxEntries}

InitUrlFile ==
    /\ InitStore
    /\ chunkCall = IdleChunkCall
    /\ query = IdleQuery
    /\ qnaCall = IdleQnaCall
    /\ race = IdleRace
    /\ procs = IdleProcs
    /\ ops = 0
    /\ \E es \in RoundTripLists :
          urlCall = [pc |-> "write", entries |-> es, file |-> <<>>, parsed |-> <<>>]

RewriteUrlContentFile ==
    /\ urlCall.pc = "write"
    /\ urlCall' = [urlCall EXCEPT !.pc = "read",
                                  !.file = rewrite_url_content_file(urlCall.entries)]
    /\ UNCHANGED <<varsStore, chunkCall, query, qnaCall, race, procs, ops>>

ParseUrlContentFile ==
    /\ urlCall.pc = "read"
    /\ urlCall' = [urlCall EXCEPT !.pc = "done",
                                  !.parsed = parse_url_content_file(urlCall.file)]
    /\ UNCHANGED <<varsStore, chunkCall, query, qnaCall, race, procs, ops>>

NextUrlFile == RewriteUrlContentFile \/ ParseUrlContentFile

SpecUrlFile == InitUrlFile /\ [][NextUrlFile]_vars

-----------------------------------------------------------------------------
(* rag_core.query_rag.  The services it calls are its inputs: keysOk (the  *)
(* API keys are set), retrieval (what coll.query returns, or that the      *)
(* embedding of the question failed), completion (what the Groq call       *)
(* returns, or the reason it failed).  Distances are in tenths.            *)

GATE_DISTANCE == 20           \* best_distance > 2.0
SNIPPET_LENGTH == 200         \* chunk_text[:200], counted in tokens here

PROMPT_FOR_INPUT == "Please ask a question."
NO_MATCH_ANSWER ==
    "I couldn't find any relevant information in the knowledge base to answer that."
LOW_CONFIDENCE_ANSWER ==
    "I couldn't find relevant information in the knowledge base for that question."
APOLOGY == "Sorry, an error occurred while generating an answer: "
NO_ANSWER == "I couldn't generate an answer."

\* meta.get(key), "" standing for None
get(meta, key) == IF key \in DOMAIN meta THEN meta[key] ELSE ""

\* meta.get("source") or meta.get("url") or meta.get("filename") or f"Chunk {i+1}"
source_label(meta, i) ==
    IF get(meta, "source") # "" THEN get(meta, "source")
    ELSE IF get(meta, "url") # "" THEN get(meta, "url")
    ELSE IF get(meta, "filename") # "" THEN get(meta, "filename")
    ELSE "Chunk " \o ToString(i)

snippet(text) ==
    IF Len(text) > SNIPPET_LENGTH THEN SubSeq(text, 1, SNIPPET_LENGTH) \o <<"...">> ELSE text

\* the attribution list: one {text, source} per retrieved chunk
source_labels(results) ==
    [i \in 1..Len(results) |->
        [text |-> snippet(results[i].text), source |-> source_label(results[i].meta, i)]]

\* query_collection: the n nearest entries, best first
query_collection(results, n) == SubSeq(results, 1, Min(Len(results), Min(n, 100)))

\* the answer of the Groq call: its stripped text, an apology when it raised
generated_answer(completion) ==
    LET answer == IF completion.ok THEN completion.text ELSE APOLOGY \o completion.text
    IN  IF answer # "" THEN answer ELSE NO_ANSWER

QueryResult(status, answer, sources, retrieved, completed) ==
    [status |-> status, answer |-> answer, sources |-> sources,
     retrieved |-> retrieved, completed |-> completed]

\* query_rag made to let a failure of the completion call reach the caller
query_rag_raising(question, keysOk, retrieval, completion) ==
    IF strip(question) = <<>>
    THEN QueryResult("ok", PROMPT_FOR_INPUT, <<>>, FALSE, FALSE)
    ELSE IF ~keysOk THEN QueryResult("config_error", "", <<>>, FALSE, FALSE)
    ELSE IF ~retrieval.ok THEN QueryResult("embedding_error", "", <<>>, TRUE, FALSE)
    ELSE LET results == query_collection(retrieval.results, TOP_K)
         IN  IF results = <<>>
             THEN QueryResult("ok", NO_MATCH_ANSWER, <<>>, TRUE, FALSE)
             ELSE IF results[1].dist > GATE_DISTANCE
             THEN QueryResult("ok", LOW_CONFIDENCE_ANSWER, <<>>, TRUE, FALSE)
             ELSE IF ~completion.ok
             THEN QueryResult("generation_error", "", <<>>, TRUE, TRUE)
             ELSE QueryResult("ok", generated_answer(completion), source_labels(results),
                              TRUE, TRUE)

\* query_rag made to check the API keys before it looks at the question
query_rag_keys_first(question, keysOk, retrieval, completion) ==
    IF ~keysOk THEN QueryResult("config_error", "", <<>>, FALSE, FALSE)
    ELSE IF strip(question) = <<>>
    THEN QueryResult("ok", PROMPT_FOR_INPUT, <<>>, FALSE, FALSE)
    ELSE IF ~retrieval.ok THEN QueryResult("embedding_error", "", <<>>, TRUE, FALSE)
    ELSE LET results == query_collection(retrieval.results, TOP_K)
         IN  IF results = <<>>
             THEN QueryResult("ok", NO_MATCH_ANSWER, <<>>, TRUE, FALSE)
             ELSE IF results[1].dist > GATE_DISTANCE
             THEN QueryResult("ok", LOW_CONFIDENCE_ANSWER, <<>>, TRUE, FALSE)
             ELSE QueryResult("ok", generated_answer(completion), source_labels(results),
                              TRUE, TRUE)

\* query_rag: retrieved / completed tell whether the collection was queried and
\* whether the completion service was called
query_rag(question, keysOk, retrieval, completion) ==
    IF strip(question) = <<>>
    THEN QueryResult("ok", PROMPT_FOR_INPUT, <<>>, FALSE, FALSE)
    ELSE IF ~keysOk THEN QueryResult("config_error", "", <<>>, FALSE, FALSE)
    ELSE IF ~retrieval.ok THEN QueryResult("embedding_error", "", <<>>, TRUE, FALSE)
    ELSE LET results == query_collection(retrieval.results, TOP_K)
         IN  IF results = <<>>
             THEN QueryResult("ok", NO_MATCH_ANSWER, <<>>, TRUE, FALSE)
             ELSE IF results[1].dist > GATE_DISTANCE
             THEN QueryResult("ok", LOW_CONFIDENCE_ANSWER, <<>>, TRUE, FALSE)
             ELSE QueryResult("ok", generated_answer(completion), source_labels(results),
                              TRUE, TRUE)

MaxResults == 2       \* coll.query returns 0..MaxResults entries

QueryQuestions == {<<>>, <<SP>>, <<"q">>}
QueryMetas == {[source |-> "d1"], [url |-> "u1"], [type |-> "pdf"]}
QueryDistances == {0, 4, 5, 20, 21}
QueryEntries == {[text |-> <<"a">>, meta |-> m, dist |-> d] : m \in QueryMetas, d \in QueryDistances}
\* the answers of coll.query: nearest first
QueryResults ==
    {rs \in UNION {[1..n -> QueryEntries] : n \in 0..MaxResults} :
        \A i \in 1..(Len(rs) - 1) : rs[i].dist <= rs[i + 1].dist}
Retrievals == {[ok |-> TRUE, results |-> rs] : rs \in QueryResults}
                 \cup {[ok |-> FALSE, results |-> <<>>]}
Completions == {[ok |-> TRUE, text |-> "the answer"], [ok |-> TRUE, text |-> ""],
                [ok |-> FALSE, text |-> "timeout"]}

InitQuery ==
    /\ InitStore
    /\ chunkCall = IdleChunkCall
    /\ urlCall = IdleUrlCall
    /\ qnaCall = IdleQnaCall
    /\ race = IdleRace
    /\ procs = IdleProcs
    /\ ops = 0
    /\ \E question \in QueryQuestions, keysOk \in BOOLEAN, retrieval \in Retrievals,
          completion \in Completions :
          query = [IdleQuery EXCEPT !.pc = "call", !.question = question, !.keysOk = keysOk,
                                    !.retrieval = retrieval, !.completion = completion]

QueryRag ==
    /\ query.pc = "call"
    /\ query' = [query EXCEPT
                    !.pc = "done",
                    !.result = query_rag(query.question, query.keysOk, query.retrieval,
                                         query.completion)]
    /\ UNCHANGED <<varsStore, chunkCall, urlCall, qnaCall, race, procs, ops>>

NextQuery == QueryRag

SpecQuery == InitQuery /\ [][NextQuery]_vars

-----------------------------------------------------------------------------
(* qna.txt written and read back: the entries are drawn in the initial     *)
(* state.  The pairs are what POST /qna accepts once append_qna has        *)
(* stripped them: an answer may run over several lines and paragraphs.     *)

MaxPairs == 2         \* the lists written have 0..MaxPairs pairs

RoundTripQuestions == {<<>>, <<"x">>}
RoundTripAnswers == {<<>>, <<"y">>, <<"y", NL, "z">>, <<"y", NL, NL, "z">>}
RoundTripPairs == {[question |-> q, answer |-> a] : q \in RoundTripQuestions,
                                                    a \in RoundTripAnswers}
RoundTripPairLists == UNION {[1..n -> RoundTripPairs] : n \in 0..MaxPairs}

InitQnaFile ==
    /\ InitStore
    /\ chunkCall = IdleChunkCall
    /\ urlCall = IdleUrlCall
    /\ query = IdleQuery
    /\ race = IdleRace
    /\ procs = IdleProcs
    /\ ops = 0
    /\ \E es \in RoundTripPairLists :
          qnaCall = [pc |-> "write", entries |-> es, file |-> <<>>, parsed |-> <<>>]

WriteQnaFile ==
    /\ qnaCall.pc = "write"
    /\ qnaCall' = [qnaCall EXCEPT !.pc = "read", !.file = write_qna_file(qnaCall.entries)]
    /\ UNCHANGED <<varsStore, chunkCall, urlCall, query, race, procs, ops>>

ParseQnaFile ==
    /\ qnaCall.pc = "read"
    /\ qnaCall' = [qnaCall EXCEPT !.pc = "done", !.parsed = parse_qna_file(qnaCall.file)]
    /\ UNCHANGED <<varsStore, chunkCall, urlCall, query, race, procs, ops>>

NextQnaFile == WriteQnaFile \/ ParseQnaFile

SpecQnaFile == InitQnaFile /\ [][NextQnaFile]_vars

-----------------------------------------------------------------------------
(* What the collection holds, and what the raw stores say it should hold.  *)

RECURSIVE copies(_, _)
copies(S, bag) ==
    IF S = {} THEN 0
    ELSE LET e == CHOOSE x \in S : TRUE IN bag[e] + copies(S \ {e}, bag)

\* the chunk texts the collection holds under label, as a bag
textsOf(idx, label) ==
    LET es == {e \in DOMAIN idx : e.source = label}
    IN  [t \in {e.text : e \in es} |-> copies({e \in es : e.text = t}, idx)]

\* the (chunk text, source label) pairs of the collection, as a bag
pairsOf(idx) ==
    LET ps == {[text |-> e.text, source |-> e.source] : e \in DOMAIN idx}
    IN  [p \in ps |-> copies({e \in DOMAIN idx : e.text = p.text /\ e.source = p.source}, idx)]

chunkBag(text) == bagOf(chunk_text(text, CHUNK_SIZE, CHUNK_OVERLAP))

RECURSIVE chunkBags(_)
chunkBags(texts) ==
    IF texts = <<>> THEN EmptyBag ELSE chunkBag(Head(texts)) (+) chunkBags(Tail(texts))

\* the texts the raw stores persist for label: knowledge.txt under its file name, the
\* entries parse_url_content_file returns for that url, qna.txt, documents/<label>.txt
persistedTexts(label) ==
    LET es == SelectSeq(parse_url_content_file(url_content), LAMBDA e : e.url = label)
    IN  (IF label = KNOWLEDGE_LABEL /\ knowledge.exists THEN <<knowledge.text>> ELSE <<>>)
        \o [i \in 1..Len(es) |-> es[i].content]
        \o (IF label = QNA_LABEL THEN <<qna>> ELSE <<>>)
        \o (IF label \in DOMAIN documents THEN <<documents[label]>> ELSE <<>>)

\* every label that the collection or a raw store knows
knownLabels ==
    {e.source : e \in DOMAIN index} \cup DOMAIN documents \cup {QNA_LABEL, KNOWLEDGE_LABEL}
    \cup {parse_url_content_file(url_content)[i].url :
            i \in 1..Len(parse_url_content_file(url_content))}

Updates == {"save_document", "update_url_content"}
Deletes == {"delete_document", "remove_url_from_knowledge_base", "delete_all_qna"}

-----------------------------------------------------------------------------
(* The claims.                                                             *)

\* C1: after any sequence of completed operations, for every source label the entries
\* of the collection under that label are exactly the chunks of the text the raw
\* stores persist for it.
C1_IndexMatchesStores ==
    out.status = "ok" =>
        \A label \in knownLabels : textsOf(index, label) = chunkBags(persistedTexts(label))

\* C2: after save_document(doc_id, name, content) or update_url_content(url, content)
\* has completed, the entries under that label are exactly the chunks of content.
C2_UpdateReindexes ==
    (out.op \in Updates /\ out.status = "ok") => textsOf(index, out.id) = chunkBag(out.text)

\* C3: after delete_document, remove_url_from_knowledge_base or delete_all_qna has
\* returned, the collection holds no entry under that label, also when the delete
\* call of the collection failed.
C3_DeletionComplete ==
    (out.op \in Deletes /\ out.status = "ok") => entriesOf(index, out.id) = EmptyBag

\* C4: reingest_all_sources leaves the collection with the (chunk text, source label)
\* pairs it held just before the rebuild.
C4_RebuildKeepsIndex ==
    [][(out'.op = "reingest_all_sources" /\ out'.status = "ok")
          => pairsOf(index') = pairsOf(index)]_vars

\* C5: remove_url_from_knowledge_base(u) right after ingest_url(u) takes u's entry out
\* of url_content.txt: when that entry was the only one, parse_url_content_file
\* returns no entry afterwards.
C5_RemoveAfterIngest ==
    [][(/\ out.op = "ingest_url" /\ out.status = "ok"
        /\ Len(parse_url_content_file(url_content)) = 1
        /\ out'.op = "remove_url_from_knowledge_base" /\ out'.id = out.id)
          => parse_url_content_file(url_content') = <<>>]_vars

\* C6: parse_url_content_file applied to the file rewrite_url_content_file(entries)
\* wrote returns entries, every url and content as written.
C6_UrlRoundTrip == urlCall.pc = "done" => urlCall.parsed = urlCall.entries

\* C7: an update (save_document, update_url_content, delete_qna_at_index) whose
\* embedding step fails never ends with the raw store holding content whose chunks
\* are not in the collection.
C7_UpdateAllOrNothing ==
    (out.op \in Updates \cup {"delete_qna_at_index"} /\ out.status = "embedding_error")
        => textsOf(index, out.id) = chunkBags(persistedTexts(out.id))

\* C8: when the embedding fails during ingest_url or append_qna, the raw store and
\* the collection are as they were before the call.
C8_FailedIngestChangesNothing ==
    [][(out'.op \in {"ingest_url", "append_qna"} /\ out'.status = "embedding_error")
          => (url_content' = url_content /\ qna' = qna /\ index' = index)]_vars

\* C9: when the best distance of a retrieval exceeds SIMILARITY_THRESHOLD, query_rag
\* answers with the "no relevant information" message and no sources, and does not
\* call the completion service.
C9_SimilarityGate ==
    (/\ query.pc = "done" /\ query.result.status = "ok" /\ strip(query.question) # <<>>
     /\ query.retrieval.results # <<>>
     /\ query.retrieval.results[1].dist > SIMILARITY_THRESHOLD)
        => (/\ query.result.answer \in {NO_MATCH_ANSWER, LOW_CONFIDENCE_ANSWER}
            /\ query.result.sources = <<>>
            /\ ~query.result.completed)

\* ceil(a / b) for b > 0
CeilDiv(a, b) == -((-a) \div b)

chunkWords == Len(split(chunkCall.text))

\* C10, as claimed: with 0 <= overlap < chunk_size, a text of W >= 1 words yields
\* ceil((W - chunk_size) / (chunk_size - overlap)) + 1 chunks, and W = 0 yields none.
C10_ChunkCountLaw ==
    (chunkCall.pc = "done" /\ chunkCall.overlap < chunkCall.chunk_size) =>
        Len(chunkCall.result) =
            IF chunkWords >= 1
            THEN CeilDiv(chunkWords - chunkCall.chunk_size,
                         chunkCall.chunk_size - chunkCall.overlap) + 1
            ELSE 0

\* C10, amended: with 0 <= overlap < chunk_size, a text of W >= 1 words yields
\* ceil(max(W - chunk_size, 0) / (chunk_size - overlap)) + 1 chunks (a text of at most
\* chunk_size words is one chunk), and W = 0 yields none.
C10_ChunkCountLawClamped ==
    (chunkCall.pc = "done" /\ chunkCall.overlap < chunkCall.chunk_size) =>
        Len(chunkCall.result) =
            IF chunkWords >= 1
            THEN CeilDiv(Max(chunkWords - chunkCall.chunk_size, 0),
                         chunkCall.chunk_size - chunkCall.overlap) + 1
            ELSE 0

\* a text longer than one window, chunked with an overlap, into three chunks or more
C10_Witness ==
    /\ chunkCall.pc = "done"
    /\ 0 < chunkCall.overlap /\ chunkCall.overlap < chunkCall.chunk_size
    /\ chunkWords > chunkCall.chunk_size
    /\ Len(chunkCall.result) >= 3

-----------------------------------------------------------------------------
\* C11: ingesting a source again with the same label and the same content (ingest_url,
\* ingest_pdf, ingest_docx) leaves the Index with the entries the label had after the
\* first ingest: the entries of the label do not accumulate.
Ingests == {"ingest_url", "ingest_pdf", "ingest_docx"}

C11_ReingestReplaces ==
    [][(/\ out.op \in Ingests /\ out.status = "ok"
        /\ out'.op = out.op /\ out'.status = "ok"
        /\ out'.id = out.id /\ out'.text = out.text)
       => entriesOf(index', out.id) = entriesOf(index, out.id)]_vars

\* C12: for every list of {question, answer} pairs, empty questions and answers
\* included, parse_qna_file read on the file _write_qna_file wrote returns the list,
\* in the same order.
C12_QnaRoundTrip == qnaCall.pc = "done" => qnaCall.parsed = qnaCall.entries

\* C13: delete_qna_at_index(i) on a store of n entries with i < 0 or i >= n ends in the
\* not-found error (IndexError) and leaves qna.txt and the Index entries labelled 'qna'
\* as they were.
C13_OutOfRangeDelete ==
    [][(/\ out'.op = "delete_qna_at_index"
        /\ (out'.at < 0 \/ out'.at >= Len(parse_qna_file(qna))))
       => (/\ out'.status = "index_error"
           /\ qna' = qna
           /\ entriesOf(index', QNA_LABEL) = entriesOf(index, QNA_LABEL))]_vars

\* delete_qna_at_index(i) with i >= 2 has failed on a store of two indexed pairs
C13_Witness ==
    /\ out.op = "delete_qna_at_index"
    /\ out.status = "index_error"
    /\ out.at >= 2
    /\ Len(parse_qna_file(qna)) = 2
    /\ entriesOf(index, QNA_LABEL) # EmptyBag

\* C14: reading a document whose id is not in the Document store ends in the not-found
\* outcome, not in a successful result.
C14_MissingDocumentNotFound ==
    (out.op = "get_document" /\ out.id \notin DOMAIN documents) => out.status = "not_found"

\* C15: an ingest of empty or white-space-only text (ingest_text reached from ingest_url,
\* ingest_pdf, ingest_docx or ingest_knowledge_file once the text is extracted) returns
\* 0 chunks and leaves the Index entries of every source as they were.
IngestsOfText == Ingests \cup {"ingest_knowledge_file"}

C15_EmptyIngest ==
    [][(/\ out'.op \in IngestsOfText
        /\ out'.status \notin {"extraction_error", "file_not_found"}
        /\ strip(out'.text) = <<>>)
       => (out'.status = "ok" /\ out'.n = 0 /\ index' = index)]_vars

\* a source that has entries in the Index was ingested again with empty text
C15_Witness ==
    /\ out.op \in IngestsOfText
    /\ out.status = "ok"
    /\ strip(out.text) = <<>>
    /\ out.n = 0
    /\ entriesOf(index, out.id) # EmptyBag

\* C16: when the extraction of the text fails in ingest_url, ingest_pdf or ingest_docx,
\* the error reaches the caller and nothing has changed: no raw store is written and
\* nothing is added to the Index.
C16_FailedExtractionChangesNothing ==
    [][(out'.op \in Ingests /\ out'.status = "extraction_error")
       => UNCHANGED <<knowledge, url_content, qna, documents, index>>]_vars

\* an extraction has failed on a deployment that holds a URL entry and indexed chunks
C16_Witness ==
    /\ out.op \in Ingests
    /\ out.status = "extraction_error"
    /\ url_content # <<>>
    /\ index # EmptyBag

\* what coll.query handed to query_rag, and whether the best entry passes the gate
topResults == query_collection(query.retrieval.results, TOP_K)
reachedRetrieval == strip(query.question) # <<>> /\ query.keysOk /\ query.retrieval.ok
passesGate == reachedRetrieval /\ topResults # <<>> /\ topResults[1].dist <= GATE_DISTANCE

\* C17: when retrieval passes the gate and the completion call fails, query_rag does not
\* raise: its answer is the apology followed by the failure reason, and its sources are
\* the attributions of all the retrieved chunks.
C17_ApologyOnGatewayFailure ==
    (query.pc = "done" /\ passesGate /\ ~query.completion.ok)
    => (/\ query.result.status = "ok"
        /\ query.result.answer = APOLOGY \o query.completion.text
        /\ Len(query.result.sources) = Len(topResults)
        /\ \A i \in 1..Len(topResults) :
              /\ query.result.sources[i].text = snippet(topResults[i].text)
              /\ query.result.sources[i].source = source_label(topResults[i].meta, i))

\* the completion call has failed after two chunks passed the gate
C17_Witness ==
    /\ query.pc = "done"
    /\ passesGate
    /\ ~query.completion.ok
    /\ Len(topResults) = 2
    /\ query.result.completed

\* C18: the answer of the low-confidence outcome (best distance above the gate) is the
\* message of the outcome with no candidate at all, and both carry no sources.
C18_SameNoMatchMessage ==
    (/\ query.pc = "done"
     /\ reachedRetrieval
     /\ (topResults = <<>> \/ topResults[1].dist > GATE_DISTANCE))
    => (query.result.answer = NO_MATCH_ANSWER /\ query.result.sources = <<>>)

\* C19: for a question that is empty once trimmed, query_rag returns the prompt for
\* input with no sources, and makes no key check, no retrieval and no completion call.
C19_EmptyQuestion ==
    (query.pc = "done" /\ strip(query.question) = <<>>)
    => (/\ query.result.status = "ok"
        /\ query.result.answer = PROMPT_FOR_INPUT
        /\ query.result.sources = <<>>
        /\ ~query.result.retrieved
        /\ ~query.result.completed)

\* a white-space-only question was asked while the keys were missing and the index
\* could not be queried
C19_Witness ==
    /\ query.pc = "done"
    /\ query.question = <<SP>>
    /\ ~query.keysOk
    /\ ~query.retrieval.ok

-----------------------------------------------------------------------------
(* save_document run statement by statement while a query reads the        *)
(* collection.  The endpoints are synchronous FastAPI handlers, which run  *)
(* in a thread pool, so a query can run between any two statements of an   *)
(* update.  Each call of Chroma (coll.delete, coll.add, coll.query) is one *)
(* step.  The deployment starts as save_document(doc_id, old) left it.     *)

RaceContents == {<<>>, <<"a">>, <<"a", SP, "b", SP, "c">>, <<"d", SP, "e">>}

InitRace ==
    /\ knowledge = [exists |-> FALSE, text |-> <<>>]
    /\ url_content = <<>>
    /\ qna = <<>>
    /\ out = [op |-> "init", id |-> NoArg, text |-> NoArg, status |-> "ok"]
    /\ chunkCall = IdleChunkCall
    /\ urlCall = IdleUrlCall
    /\ query = IdleQuery
    /\ qnaCall = IdleQnaCall
    /\ procs = IdleProcs
    /\ ops = 0
    /\ \E doc_id \in DocIds, old \in RaceContents, content \in RaceContents :
          /\ documents = write_document(NoDocuments, doc_id, old)
          /\ index = ingest_text(EmptyBag, old, doc_id, "doc", TRUE).index
          /\ race = [IdleRace EXCEPT !.pc = "write", !.doc_id = doc_id, !.old = old,
                                     !.content = content]

\* f.write_text(content, encoding="utf-8")
SaveDocumentWrite ==
    /\ race.pc = "write"
    /\ documents' = write_document(documents, race.doc_id, race.content)
    /\ race' = [race EXCEPT !.pc = "delete"]
    /\ UNCHANGED <<knowledge, url_content, qna, index, out, chunkCall, urlCall, query,
                   qnaCall, procs, ops>>

\* delete_chunks_by_source(doc_id)
SaveDocumentDelete(deleteOk) ==
    /\ race.pc = "delete"
    /\ index' = delete_chunks_by_source(index, race.doc_id, deleteOk)
    /\ race' = [race EXCEPT !.pc = "ingest"]
    /\ UNCHANGED <<knowledge, url_content, qna, documents, out, chunkCall, urlCall, query,
                   qnaCall, procs, ops>>

\* if content.strip(): return ingest_text(content, source_label=doc_id, ...)
SaveDocumentIngest(embedOk) ==
    /\ race.pc = "ingest"
    /\ LET r == IF strip(race.content) # <<>>
                THEN ingest_text(index, race.content, race.doc_id, "doc", embedOk)
                ELSE [index |-> index, ok |-> TRUE, n |-> 0]
       IN  /\ index' = r.index
           /\ race' = [race EXCEPT !.pc = IF r.ok THEN "done" ELSE "failed"]
    /\ UNCHANGED <<knowledge, url_content, qna, documents, out, chunkCall, urlCall, query,
                   qnaCall, procs, ops>>

\* a query runs: coll.query reads the collection as it is now; seen is what it can
\* return for the label of the document (the label has fewer than TOP_K entries)
QueryDuringSave ==
    /\ ~race.queried
    /\ race.pc # "idle"
    /\ race' = [race EXCEPT !.queried = TRUE, !.seen = textsOf(index, race.doc_id)]
    /\ UNCHANGED <<varsStore, chunkCall, urlCall, query, qnaCall, procs, ops>>

NextRace ==
    \/ SaveDocumentWrite
    \/ \E deleteOk \in BOOLEAN : SaveDocumentDelete(deleteOk)
    \/ \E embedOk \in BOOLEAN : SaveDocumentIngest(embedOk)
    \/ QueryDuringSave

SpecRace == InitRace /\ [][NextRace]_vars

\* C20: a query that interleaves with one update of a source sees, under the label of
\* the source, all the chunks of the old content, no chunk at all, or all the chunks of
\* the new content, and never old and new chunks together.
C20_NoMixObserved ==
    race.queried => race.seen \in {chunkBag(race.old), EmptyBag, chunkBag(race.content)}

\* C21: an update deletes the chunks of the label first, then writes the new raw text,
\* then adds the new chunks: the raw store is never rewritten while the Index still
\* holds the stale chunks of the label.
C21_DeleteBeforePersist ==
    [][documents' # documents => entriesOf(index, race.doc_id) = EmptyBag]_vars

-----------------------------------------------------------------------------
(* delete_qna_at_index and append_qna run statement by statement, side by  *)
(* side: the handlers run in a thread pool and take no lock.  A state in   *)
(* the middle of a call is also where a crash leaves the deployment.  The  *)
(* deployment starts as append_qna left it after storing the pairs.        *)

MaxStored == 2        \* qna.txt starts with 1..MaxStored pairs

StoredPairs == {[question |-> <<"x">>, answer |-> <<"y">>],
                [question |-> <<"w">>, answer |-> <<"z">>]}
AppendedPairs == {[question |-> <<"v">>, answer |-> <<"u">>]}
StoredLists == UNION {[1..n -> StoredPairs] : n \in 1..MaxStored}

\* the text append_qna writes and ingests for a pair
pairText(pair) == qna_text(strip(pair.question), strip(pair.answer))

\* qna.txt after append_qna has stored the pairs, first to last
RECURSIVE qnaFileOf(_)
qnaFileOf(pairs) ==
    IF pairs = <<>> THEN <<>>
    ELSE pairText(Head(pairs)) \o <<NL, NL>> \o qnaFileOf(Tail(pairs))

\* the collection after append_qna has ingested the pairs, one ingest_text per pair
RECURSIVE qnaIndexOf(_)
qnaIndexOf(pairs) ==
    IF pairs = <<>> THEN EmptyBag
    ELSE ingest_text(qnaIndexOf(Tail(pairs)), pairText(Head(pairs)), QNA_LABEL, "qna",
                     TRUE).index

InitQnaSteps ==
    /\ knowledge = [exists |-> FALSE, text |-> <<>>]
    /\ url_content = <<>>
    /\ documents = NoDocuments
    /\ out = [op |-> "init", id |-> NoArg, text |-> NoArg, status |-> "ok"]
    /\ chunkCall = IdleChunkCall
    /\ urlCall = IdleUrlCall
    /\ query = IdleQuery
    /\ qnaCall = IdleQnaCall
    /\ race = IdleRace
    /\ ops = 0
    /\ \E stored \in StoredLists, pair \in AppendedPairs, appends \in BOOLEAN :
          \E at \in 0..Len(stored) :
             /\ qna = qnaFileOf(stored)
             /\ index = qnaIndexOf(stored)
             /\ procs = [deleter |-> [pc |-> "read", at |-> at, stored |-> stored,
                                      entries |-> <<>>],
                         appender |-> [pc |-> IF appends THEN "append" ELSE "idle",
                                       pair |-> pair]]

\* entries = parse_qna_file(); raise IndexError when index is out of range
DeleteQnaRead ==
    /\ procs.deleter.pc = "read"
    /\ LET entries == parse_qna_file(qna)
           at == procs.deleter.at
       IN  procs' = [procs EXCEPT
                       !.deleter.pc = IF at < 0 \/ at >= Len(entries) THEN "rejected"
                                      ELSE "write",
                       !.deleter.entries = entries]
    /\ UNCHANGED <<varsStore, chunkCall, urlCall, query, qnaCall, race, ops>>

\* entries.pop(index); _write_qna_file(entries)
DeleteQnaWrite ==
    /\ procs.deleter.pc = "write"
    /\ LET left == pop(procs.deleter.entries, procs.deleter.at)
       IN  /\ qna' = write_qna_file(left)
           /\ procs' = [procs EXCEPT !.deleter.pc = "delete", !.deleter.entries = left]
    /\ UNCHANGED <<knowledge, url_content, documents, index, out, chunkCall, urlCall, query,
                   qnaCall, race, ops>>

\* delete_chunks_by_source("qna")
DeleteQnaDelete(deleteOk) ==
    /\ procs.deleter.pc = "delete"
    /\ index' = delete_chunks_by_source(index, QNA_LABEL, deleteOk)
    /\ procs' = [procs EXCEPT !.deleter.pc = "ingest"]
    /\ UNCHANGED <<knowledge, url_content, qna, documents, out, chunkCall, urlCall, query,
                   qnaCall, race, ops>>

\* if entries: ingest_text("\n\n".join(...), source_label="qna", ...)
DeleteQnaIngest(embedOk) ==
    /\ procs.deleter.pc = "ingest"
    /\ LET left == procs.deleter.entries
           r == IF left # <<>>
                THEN ingest_text(index, qna_reingest_text(left), QNA_LABEL, "qna", embedOk)
                ELSE [index |-> index, ok |-> TRUE, n |-> 0]
       IN  /\ index' = r.index
           /\ procs' = [procs EXCEPT !.deleter.pc = IF r.ok THEN "done" ELSE "failed"]
    /\ UNCHANGED <<knowledge, url_content, qna, documents, out, chunkCall, urlCall, query,
                   qnaCall, race, ops>>

\* append_qna: with path.open("a") as f: f.write(line)
AppendQnaWrite ==
    /\ procs.appender.pc = "append"
    /\ qna' = qna \o pairText(procs.appender.pair) \o <<NL, NL>>
    /\ procs' = [procs EXCEPT !.appender.pc = "ingest"]
    /\ UNCHANGED <<knowledge, url_content, documents, index, out, chunkCall, urlCall, query,
                   qnaCall, race, ops>>

\* append_qna: return ingest_text(text, source_label="qna", ...)
AppendQnaIngest(embedOk) ==
    /\ procs.appender.pc = "ingest"
    /\ LET r == ingest_text(index, pairText(procs.appender.pair), QNA_LABEL, "qna", embedOk)
       IN  /\ index' = r.index
           /\ procs' = [procs EXCEPT !.appender.pc = IF r.ok THEN "done" ELSE "failed"]
    /\ UNCHANGED <<knowledge, url_content, qna, documents, out, chunkCall, urlCall, query,
                   qnaCall, race, ops>>

NextQnaSteps ==
    \/ DeleteQnaRead
    \/ DeleteQnaWrite
    \/ \E deleteOk \in BOOLEAN : DeleteQnaDelete(deleteOk)
    \/ \E embedOk \in BOOLEAN : DeleteQnaIngest(embedOk)
    \/ AppendQnaWrite
    \/ \E embedOk \in BOOLEAN : AppendQnaIngest(embedOk)

SpecQnaSteps == InitQnaSteps /\ [][NextQnaSteps]_vars

\* the chunk texts the persisted Q&A text gives: of each pair ingested on its own, and of
\* the pairs ingested as one text
persistedQnaChunks ==
    LET entries == parse_qna_file(qna)
        texts == {pairText(entries[i]) : i \in 1..Len(entries)}
                    \cup {qna_reingest_text(entries)}
    IN  UNION {DOMAIN chunkBag(t) : t \in texts}

\* C22: in a delete operation the chunks of the label leave the Index before the raw
\* store is changed, so at no step of delete_qna_at_index (where a crash may stop it)
\* does the Index hold a chunk of Q&A text that is no longer in qna.txt.
C22_NoOrphanChunks ==
    procs.appender.pc = "idle"
    => \A t \in DOMAIN textsOf(index, QNA_LABEL) : t \in persistedQnaChunks

\* C27: when append_qna and delete_qna_at_index run side by side and both complete, the
\* appended pair, which the delete did not target, is still in qna.txt, and the delete
\* has removed exactly one pair.
C27_NoLostUpdate ==
    (/\ procs.appender.pc = "done"
     /\ procs.deleter.pc = "done"
     /\ procs.deleter.at < Len(procs.deleter.stored))
    => LET now == parse_qna_file(qna)
       IN  /\ \E i \in 1..Len(now) : now[i] = procs.appender.pair
           /\ Len(now) = Len(procs.deleter.stored)

-----------------------------------------------------------------------------
-----------------------------------------------------------------------------
\* C24: delete_qna_at_index(i) on a store of n entries with 0 <= i < n removes exactly
\* the entry at position i: parse_qna_file then returns the n - 1 other entries in their
\* order, and the Index entries labelled 'qna' hold no chunk of the removed pair (every
\* one of them is a chunk of the pairs that are left).
C24_DeleteRemovesOnePair ==
    [][(out'.op = "delete_qna_at_index" /\ out'.status = "ok")
       => LET left == pop(parse_qna_file(qna), out'.at)
          IN  /\ parse_qna_file(qna') = left
              /\ \A t \in DOMAIN textsOf(index', QNA_LABEL) :
                    t \in DOMAIN chunkBag(qna_reingest_text(left))]_vars

-----------------------------------------------------------------------------
\* the entries of the collection that do not belong to document doc_id: every entry
\* of another type, and every document entry of another id
othersOf(idx, doc_id) ==
    [e \in {x \in DOMAIN idx : x.type # "doc" \/ x.source # doc_id} |-> idx[e]]

\* C25: save_document (create_document) and delete_document for one document leave the
\* persisted text and the Index entries of every other source (the other documents,
\* the URLs, the Q&A store, the knowledge file) as they were, whatever the id.
C25_DocumentFrame ==
    [][(out'.op \in {"save_document", "delete_document"})
       => (/\ knowledge' = knowledge
           /\ url_content' = url_content
           /\ qna' = qna
           /\ \A d \in (DOMAIN documents \cup DOMAIN documents') \ {out'.id} :
                 d \in DOMAIN documents /\ d \in DOMAIN documents'
                 /\ documents'[d] = documents[d]
           /\ othersOf(index', out'.id) = othersOf(index, out'.id))]_vars

-----------------------------------------------------------------------------
(* Two save_document calls for one document run statement by statement,    *)
(* side by side.  The deployment starts as save_document(doc_id, old) left *)
(* it; deleted records whether coll.delete of the call went through.       *)

Savers == {"first", "second"}

InitTwoSaves ==
    /\ knowledge = [exists |-> FALSE, text |-> <<>>]
    /\ url_content = <<>>
    /\ qna = <<>>
    /\ out = [op |-> "init", id |-> NoArg, text |-> NoArg, status |-> "ok"]
    /\ chunkCall = IdleChunkCall
    /\ urlCall = IdleUrlCall
    /\ query = IdleQuery
    /\ qnaCall = IdleQnaCall
    /\ ops = 0
    /\ \E doc_id \in DocIds, old \in RaceContents :
          /\ documents = write_document(NoDocuments, doc_id, old)
          /\ index = ingest_text(EmptyBag, old, doc_id, "doc", TRUE).index
          /\ race = [IdleRace EXCEPT !.doc_id = doc_id, !.old = old]
    /\ \E contents \in [Savers -> RaceContents] :
          procs = [p \in Savers |-> [pc |-> "write", content |-> contents[p],
                                     deleted |-> FALSE]]

\* f.write_text(content, encoding="utf-8")
ConcurrentSaveWrite(p) ==
    /\ procs[p].pc = "write"
    /\ documents' = write_document(documents, race.doc_id, procs[p].content)
    /\ procs' = [procs EXCEPT ![p].pc = "delete"]
    /\ UNCHANGED <<knowledge, url_content, qna, index, out, chunkCall, urlCall, query,
                   qnaCall, race, ops>>

\* delete_chunks_by_source(doc_id)
ConcurrentSaveDelete(p, deleteOk) ==
    /\ procs[p].pc = "delete"
    /\ index' = delete_chunks_by_source(index, race.doc_id, deleteOk)
    /\ procs' = [procs EXCEPT ![p].pc = "ingest", ![p].deleted = deleteOk]
    /\ UNCHANGED <<knowledge, url_content, qna, documents, out, chunkCall, urlCall, query,
                   qnaCall, race, ops>>

\* if content.strip(): return ingest_text(content, source_label=doc_id, ...)
ConcurrentSaveIngest(p, embedOk) ==
    /\ procs[p].pc = "ingest"
    /\ LET r == IF strip(procs[p].content) # <<>>
                THEN ingest_text(index, procs[p].content, race.doc_id, "doc", embedOk)
                ELSE [index |-> index, ok |-> TRUE, n |-> 0]
       IN  /\ index' = r.index
           /\ procs' = [procs EXCEPT ![p].pc = IF r.ok THEN "done" ELSE "failed"]
    /\ UNCHANGED <<knowledge, url_content, qna, documents, out, chunkCall, urlCall, query,
                   qnaCall, race, ops>>

NextTwoSaves ==
    \/ \E p \in Savers : ConcurrentSaveWrite(p)
    \/ \E p \in Savers, deleteOk \in BOOLEAN : ConcurrentSaveDelete(p, deleteOk)
    \/ \E p \in Savers, embedOk \in BOOLEAN : ConcurrentSaveIngest(p, embedOk)

SpecTwoSaves == InitTwoSaves /\ [][NextTwoSaves]_vars

\* C26: when two updates of one source run side by side and both complete (their
\* deletes and their embeddings went through), the Index entries of the label are
\* exactly the chunks of the content the raw store holds in the end, whatever the
\* interleaving of their write, delete and add steps.
C26_ConcurrentUpdatesConverge ==
    (\A p \in Savers : procs[p].pc = "done" /\ procs[p].deleted)
    => textsOf(index, race.doc_id) = chunkBag(documents[race.doc_id])
====
